---- MODULE Spec2Model ----
(***************************************************************************)
(* State-machine model of the async TLS connection facade                  *)
(* (src/src/asynch.rs: TlsConnection::new / open / write / flush / read /  *)
(* read_buffered / close).                                                 *)
(*                                                                         *)
(* The transport (delegate) is the environment.  Outbound, every record    *)
(* passed to write_all is logged in wire_out; a write_all that fails logs  *)
(* the record as not complete (some prefix of it reached the transport).   *)
(* Inbound, the peer is an echo peer: it opens the application records it  *)
(* received in order and sends their plaintext back, and it may also send  *)
(* session tickets or a close_notify alert, or have a record corrupted on  *)
(* the way; the transport read may fail.                                   *)
(*                                                                         *)
(* AEAD is modelled by what it does to the counters: a sealed record       *)
(* carries the key epoch and the nonce counter it was sealed with, and it  *)
(* opens only under the same epoch and counter and when it was not         *)
(* modified.  Bytes of the write buffer that hold an encoded record are    *)
(* no longer plaintext: they hold the marker ENC.                          *)
(***************************************************************************)
EXTENDS Integers, Sequences, FiniteSets, TLC

\* ---------------------------------------------------------------- constants

\* AEAD authentication tag length of the supported suites
AEAD_TAG_LEN == 16

\* an overhead that covers the AEAD tag only
TagOnlyOverhead == AEAD_TAG_LEN

\* asynch.rs:19
TLS_RECORD_OVERHEAD == 128

\* record header {content_type u8, legacy_version u16, length u16}
RECORD_HEADER_LEN == 5

\* inner content-type byte appended to the plaintext before sealing
INNER_TYPE_LEN == 1

\* an alert is {level u8, description u8}
ALERT_LEN == 2

\* a cell of a buffer that holds bytes of an encoded record (not plaintext)
ENC == -1

\* ------------------------------------------------------------------- bounds

\* the write buffer has length TLS_RECORD_OVERHEAD + 1 .. + MaxBlock
MaxBlock == 2

\* longest slice handed to one write / read call
MaxChunk == MaxBlock

\* total number of plaintext bytes the user submits to write
MaxTotal == 3

\* number of records the peer sends in one key epoch
MaxIn == 2

\* number of write_all calls that fail
MaxFaults == 1

\* number of records one read call pulls from the transport
MaxPull == MaxIn

\* ------------------------------------------------------------------ helpers

Min(a, b) == IF a <= b THEN a ELSE b

Fill(n, v) == [i \in 1..n |-> v]

\* s with the cells 1..n replaced by ENC
Overwrite(s, n) == [i \in 1..Len(s) |-> IF i <= n THEN ENC ELSE s[i]]

RECURSIVE Concat(_)
Concat(ss) == IF ss = <<>> THEN <<>> ELSE Head(ss) \o Concat(Tail(ss))

IsPrefix(s, t) == Len(s) <= Len(t) /\ s = SubSeq(t, 1, Len(s))

CeilDiv(a, b) == (a + b - 1) \div b

\* -------------------------------------------------------------------- state

VARIABLES
  pc,                \* "idle", or "open" while open's loop is running
  state,             \* open's local State ("None" before the first open)
  handshake,         \* open's Handshake value
  opened,            \* TlsConnection.opened
  key_schedule,      \* TlsConnection.key_schedule: epoch and the two counters
  record_write_buf,  \* TlsConnection.record_write_buf
  write_pos,         \* TlsConnection.write_pos
  record_read_buf,   \* TlsConnection.record_reader.buf
  decrypted,         \* TlsConnection.decrypted
  owner,             \* who holds the transport: "conn", or "caller" after close
  wire_out,          \* transport: the records passed to write_all, in order
  peer,              \* transport: the peer's write counter and echo position
  plaintext,         \* the caller's byte stream, written front to back
  absorbed,          \* history: the bytes write copied into the write buffer
  received,          \* history: the bytes read handed to the user
  ret                \* the last call and what it returned

vars == <<pc, state, handshake, opened, key_schedule, record_write_buf, write_pos,
          record_read_buf, decrypted, owner, wire_out, peer, plaintext,
          absorbed, received, ret>>



Ret(op, res, n, data) == [op |-> op, res |-> res, n |-> n, data |-> data]

\* ----------------------------------------------------------- key schedule

\* KeySchedule::new
KeyScheduleNew == [epoch |-> 0, write_counter |-> 0, read_counter |-> 0]

\* a new pair of traffic keys is installed: counters start again at 0
RotateKeys(ks) == [epoch |-> ks.epoch + 1, write_counter |-> 0, read_counter |-> 0]

\* the write counter left as it is
keep_write_counter(ks) == ks

increment_write_counter(ks) == [ks EXCEPT !.write_counter = @ + 1]

increment_read_counter(ks) == [ks EXCEPT !.read_counter = @ + 1]

\* DecryptedBufferInfo::default
DecryptedDefault == [offset |-> 0, len |-> 0, consumed |-> 0]

\* DecryptedBufferInfo::is_empty
is_empty(d) == d.consumed = d.len

\* ------------------------------------------------------------ record codec

\* length of the encoding of a record with n payload bytes
EncodedLen(n, enc) ==
  IF enc THEN RECORD_HEADER_LEN + n + INNER_TYPE_LEN + AEAD_TAG_LEN
  ELSE RECORD_HEADER_LEN + n

\* A record as the transport sees it: len is the number of bytes of the
\* write buffer passed to write_all.
Record(type, enc, ks, data, complete) ==
  [type |-> type, enc |-> enc, epoch |-> IF enc THEN ks.epoch ELSE 0,
   ctr |-> IF enc THEN ks.write_counter ELSE 0, data |-> data,
   len |-> EncodedLen(IF type = "Alert" THEN ALERT_LEN ELSE Len(data), enc),
   complete |-> complete]

\* encode_application_data_record_in_place(buf, data_len, key_schedule):
\* seals buf[..data_len] under the write key and the current write counter;
\* the encoded record occupies buf[..len].
EncodeApplicationData(buf, data_len, ks) ==
  [len |-> EncodedLen(data_len, TRUE),
   buf |-> Overwrite(buf, EncodedLen(data_len, TRUE)),
   rec |-> Record("ApplicationData", TRUE, ks, SubSeq(buf, 1, data_len), TRUE)]

\* ClientRecord::close_notify(opened) encoded by encode_record at buf[0..]
EncodeCloseNotify(buf, is_opened, ks) ==
  [len |-> EncodedLen(ALERT_LEN, is_opened),
   buf |-> Overwrite(buf, EncodedLen(ALERT_LEN, is_opened)),
   rec |-> Record("Alert", is_opened, ks, <<>>, TRUE)]

Partial(rec) == [rec EXCEPT !.complete = FALSE]

\* ------------------------------------------------------------------- new

\* TlsConnection::new(delegate, record_read_buf, record_write_buf), and the
\* byte stream p the caller is going to write
New(p) ==
  /\ \E n \in 1..MaxBlock :
       record_write_buf = Fill(TLS_RECORD_OVERHEAD + n, 0)
  /\ pc = "idle"
  /\ state = "None"
  /\ handshake = [hrr |-> FALSE, cert |-> FALSE]
  /\ opened = FALSE
  /\ key_schedule = KeyScheduleNew
  /\ write_pos = 0
  /\ record_read_buf = <<>>
  /\ decrypted = DecryptedDefault
  /\ owner = "conn"
  /\ wire_out = <<>>
  /\ peer = [ctr |-> 0, echoed |-> 0]
  /\ plaintext = p
  /\ absorbed = <<>>
  /\ received = <<>>
  /\ ret = Ret("new", "Ok", 0, <<>>)

\* the caller's stream is MaxTotal bytes, each labelled with its position
Init == New([i \in 1..MaxTotal |-> i])

\* a call on the connection can start: the connection exists and no open
\* is running on it (a running call borrows the connection exclusively)
Callable == owner = "conn" /\ pc = "idle"

\* the records of wire whose write_all failed
Incomplete(wire) == {i \in 1..Len(wire) : ~wire[i].complete}

\* a write_all may fail while the failure budget lasts
Budget(io_ok) == io_ok \/ Cardinality(Incomplete(wire_out)) < MaxFaults

\* The outcomes enc_ok (the encoder returns Ok) and io_ok (write_all returns
\* Ok) are inputs of a call only as far as the call comes to them: the
\* encoder when the call encodes, write_all when the encoder returned Ok.
Consulted(encodes, enc_ok, io_ok) ==
  /\ ~encodes => enc_ok
  /\ ~enc_ok => io_ok

\* ----------------------------------------------------------------- flush

\* The connection fields a write-side call works on.
WriteSide ==
  [buf |-> record_write_buf, wp |-> write_pos, ks |-> key_schedule,
   wire |-> wire_out, res |-> "Ok"]

\* flush that counts the record before write_all has returned
FlushCountsBeforeWrite(c, enc_ok, io_ok) ==
  IF c.wp > 0 /\ enc_ok
  THEN LET e == EncodeApplicationData(c.buf, c.wp, c.ks)
       IN  [c EXCEPT !.buf = e.buf,
                     !.wire = Append(@, IF io_ok THEN e.rec ELSE Partial(e.rec)),
                     !.ks = increment_write_counter(@),
                     !.wp = 0,
                     !.res = IF io_ok THEN "Ok" ELSE "Io"]
  ELSE [c EXCEPT !.res = IF c.wp = 0 THEN "Ok" ELSE "EncodeError"]

\* flush that gives the block up when the encoder fails
FlushDropsOnError(c, enc_ok, io_ok) ==
  IF c.wp > 0 /\ ~enc_ok
  THEN [c EXCEPT !.wp = 0, !.res = "EncodeError"]
  ELSE IF c.wp > 0
       THEN LET e == EncodeApplicationData(c.buf, c.wp, c.ks)
            IN  IF ~io_ok
                THEN [c EXCEPT !.buf = e.buf, !.wire = Append(@, Partial(e.rec)),
                               !.res = "Io"]
                ELSE [c EXCEPT !.buf = e.buf, !.wire = Append(@, e.rec),
                               !.ks = increment_write_counter(@), !.wp = 0,
                               !.res = "Ok"]
       ELSE [c EXCEPT !.res = "Ok"]

\* flush that sends the record and keeps write_pos
FlushKeepsPos(c, enc_ok, io_ok) ==
  IF c.wp > 0 /\ enc_ok /\ io_ok
  THEN LET e == EncodeApplicationData(c.buf, c.wp, c.ks)
       IN  [c EXCEPT !.buf = e.buf, !.wire = Append(@, e.rec),
                     !.ks = increment_write_counter(@), !.res = "Ok"]
  ELSE [c EXCEPT !.res = IF c.wp = 0 \/ enc_ok THEN "Ok" ELSE "EncodeError"]

\* TlsConnection::flush.  enc_ok: encode_application_data_record_in_place
\* returns Ok; io_ok: write_all returns Ok.
FlushOp(c, enc_ok, io_ok) ==
  IF c.wp > 0
  THEN IF ~enc_ok
       THEN [c EXCEPT !.res = "EncodeError"]
       ELSE LET e == EncodeApplicationData(c.buf, c.wp, c.ks)
            IN  IF ~io_ok
                THEN [c EXCEPT !.buf = e.buf,
                               !.wire = Append(@, Partial(e.rec)),
                               !.res = "Io"]
                ELSE [c EXCEPT !.buf = e.buf,
                               !.wire = Append(@, e.rec),
                               !.ks = increment_write_counter(@),
                               !.wp = 0,
                               !.res = "Ok"]
  ELSE [c EXCEPT !.res = "Ok"]

flush(enc_ok, io_ok) ==
  /\ Callable
  /\ Budget(io_ok)
  /\ Consulted(write_pos > 0, enc_ok, io_ok)
  /\ LET c == FlushOp(WriteSide, enc_ok, io_ok)
     IN  /\ record_write_buf' = c.buf
         /\ write_pos' = c.wp
         /\ key_schedule' = c.ks
         /\ wire_out' = c.wire
         /\ ret' = Ret("flush", c.res, 0, <<>>)
  /\ UNCHANGED <<pc, state, handshake, opened, record_read_buf, decrypted,
                 owner, peer, plaintext, absorbed, received>>

\* ----------------------------------------------------------------- write

\* write without the clamp to the room left in the block
BufferedUnclamped(n, max_block_size, wp) == n

\* usize::min(buf.len(), max_block_size - self.write_pos)
Buffered(n, max_block_size, wp) == Min(n, max_block_size - wp)

\* the copy placed at the start of the buffer, whatever write_pos is
CopyToStart(buf, wp, b, buffered) ==
  [i \in 1..Len(buf) |-> IF i <= buffered THEN b[i] ELSE buf[i]]

\* record_write_buf[write_pos..write_pos + buffered].copy_from_slice(&buf[..buffered])
CopyFromSlice(buf, wp, b, buffered) ==
  [i \in 1..Len(buf) |->
     IF wp < i /\ i <= wp + buffered THEN b[i - wp] ELSE buf[i]]

\* write that leaves a full block to the next call
WriteLeavesFullBlock(c, b, enc_ok, io_ok) ==
  LET max_block_size == Len(c.buf) - TLS_RECORD_OVERHEAD
      buffered == Buffered(Len(b), max_block_size, c.wp)
  IN  [c |-> IF buffered > 0
             THEN [c EXCEPT !.buf = CopyFromSlice(c.buf, c.wp, b, buffered),
                            !.wp = c.wp + buffered]
             ELSE c,
       buffered |-> buffered]

\* TlsConnection::write(buf = b), the branch taken when self.opened
WriteOpened(c, b, enc_ok, io_ok) ==
  LET max_block_size == Len(c.buf) - TLS_RECORD_OVERHEAD
      buffered == Buffered(Len(b), max_block_size, c.wp)
      copied == IF buffered > 0
                THEN [c EXCEPT !.buf = CopyFromSlice(c.buf, c.wp, b, buffered),
                               !.wp = c.wp + buffered]
                ELSE c
  IN  \* c1, the connection after the copy, is bound as a value
      CHOOSE w \in {[c |-> IF c1.wp = max_block_size
                           THEN FlushOp(c1, enc_ok, io_ok) ELSE c1,
                     buffered |-> buffered] : c1 \in {copied}} : TRUE

\* write without the check of self.opened
WriteUnchecked(c, is_opened, b, enc_ok, io_ok) ==
  WriteOpened(c, b, enc_ok, io_ok)

\* TlsConnection::write(buf = b)
WriteOp(c, is_opened, b, enc_ok, io_ok) ==
  IF is_opened
  THEN WriteOpened(c, b, enc_ok, io_ok)
  ELSE [c |-> [c EXCEPT !.res = "MissingHandshake"], buffered |-> 0]

\* the slice of n bytes the caller hands to write: the next bytes of its
\* stream, starting with those the earlier writes did not absorb
Chunk(n) == SubSeq(plaintext, Len(absorbed) + 1, Len(absorbed) + n)

write(n, enc_ok, io_ok) ==
  /\ Callable
  /\ Budget(io_ok)
  /\ Len(absorbed) + n <= Len(plaintext)
  /\ Consulted(opened /\ write_pos + n >= Len(record_write_buf) - TLS_RECORD_OVERHEAD,
               enc_ok, io_ok)
  /\ \E b \in {Chunk(n)} : \E w \in {WriteOp(WriteSide, opened, b, enc_ok, io_ok)} :
         /\ record_write_buf' = w.c.buf
         /\ write_pos' = w.c.wp
         /\ key_schedule' = w.c.ks
         /\ wire_out' = w.c.wire
         /\ absorbed' = absorbed \o SubSeq(b, 1, w.buffered)
         /\ ret' = IF w.c.res = "Ok"
                   THEN Ret("write", "Ok", w.buffered, <<>>)
                   ELSE Ret("write", w.c.res, 0, <<>>)
  /\ UNCHANGED <<pc, state, handshake, opened, record_read_buf, decrypted,
                 owner, peer, plaintext, received>>

\* ----------------------------------------------------------------- close

\* close_internal that flushes the buffered block before the alert
CloseFlushesFirst(c, is_opened, enc_ok, io_ok) ==
  IF ~enc_ok
  THEN [c EXCEPT !.res = "EncodeError"]
  ELSE LET f == FlushOp(c, TRUE, TRUE)
           e == EncodeCloseNotify(f.buf, is_opened, f.ks)
       IN  IF ~io_ok
           THEN [f EXCEPT !.buf = e.buf,
                          !.wire = Append(@, Partial(e.rec)),
                          !.res = "Io"]
           ELSE [f EXCEPT !.buf = e.buf,
                          !.wire = Append(@, e.rec),
                          !.ks = increment_write_counter(@),
                          !.res = "Ok"]

\* close_internal that always seals the alert
CloseAlwaysSealed(c, is_opened, enc_ok, io_ok) ==
  IF ~enc_ok
  THEN [c EXCEPT !.res = "EncodeError"]
  ELSE LET e == EncodeCloseNotify(c.buf, TRUE, c.ks)
       IN  [c EXCEPT !.buf = e.buf,
                     !.wire = Append(@, IF io_ok THEN e.rec ELSE Partial(e.rec)),
                     !.ks = IF io_ok THEN increment_write_counter(@) ELSE @,
                     !.res = IF io_ok THEN "Ok" ELSE "Io"]

\* TlsConnection::close_internal
CloseInternal(c, is_opened, enc_ok, io_ok) ==
  IF ~enc_ok
  THEN [c EXCEPT !.res = "EncodeError"]
  ELSE LET e == EncodeCloseNotify(c.buf, is_opened, c.ks)
       IN  IF ~io_ok
           THEN [c EXCEPT !.buf = e.buf,
                          !.wire = Append(@, Partial(e.rec)),
                          !.res = "Io"]
           ELSE [c EXCEPT !.buf = e.buf,
                          !.wire = Append(@, e.rec),
                          !.ks = increment_write_counter(@),
                          !.res = "Ok"]

\* TlsConnection::close: consumes the connection, the caller gets the
\* transport back with Ok and with Err
close(enc_ok, io_ok) ==
  /\ Callable
  /\ Budget(io_ok)
  /\ Consulted(TRUE, enc_ok, io_ok)
  /\ LET c == CloseInternal(WriteSide, opened, enc_ok, io_ok)
     IN  /\ record_write_buf' = c.buf
         /\ write_pos' = c.wp
         /\ key_schedule' = c.ks
         /\ wire_out' = c.wire
         /\ ret' = Ret("close", c.res, 0, <<>>)
  /\ owner' = "caller"
  /\ UNCHANGED <<pc, state, handshake, opened, record_read_buf, decrypted,
                 peer, plaintext, absorbed, received>>

\* ------------------------------------------------------------------ open

\* a handshake record written by State::process
HandshakeRecord(enc, ks) ==
  Record("Handshake", enc, ks, <<>>, TRUE)

\* a turn of open's loop that sets opened as soon as a step returned Ok
OpenTurnOpensEarly(ok, next, err, ks, wire, p, hs) ==
  /\ key_schedule' = ks
  /\ wire_out' = wire
  /\ peer' = p
  /\ handshake' = hs
  /\ IF ~ok
     THEN /\ pc' = "idle"
          /\ ret' = Ret("open", err, 0, <<>>)
          /\ UNCHANGED <<state, opened>>
     ELSE /\ state' = next
          /\ opened' = TRUE
          /\ IF next = "ApplicationData"
             THEN /\ pc' = "idle"
                  /\ ret' = Ret("open", "Ok", 0, <<>>)
             ELSE UNCHANGED <<pc, ret>>
  /\ UNCHANGED <<write_pos, record_read_buf, decrypted, owner, plaintext,
                 absorbed, received>>

\* One turn of open's loop: state.process(..) returned Ok(next) or Err(err),
\* having left the key schedule ks, the transport wire and the peer p.
OpenTurn(ok, next, err, ks, wire, p, hs) ==
  /\ key_schedule' = ks
  /\ wire_out' = wire
  /\ peer' = p
  /\ handshake' = hs
  /\ IF ~ok
     THEN /\ pc' = "idle"
          /\ ret' = Ret("open", err, 0, <<>>)
          /\ UNCHANGED <<state, opened>>
     ELSE /\ state' = next
          /\ IF next = "ApplicationData"
             THEN /\ opened' = TRUE
                  /\ pc' = "idle"
                  /\ ret' = Ret("open", "Ok", 0, <<>>)
             ELSE UNCHANGED <<opened, pc, ret>>
  /\ UNCHANGED <<write_pos, record_read_buf, decrypted, owner, plaintext,
                 absorbed, received>>

\* open whose driver starts behind the ClientHello
openAtServerHello ==
  /\ Callable
  /\ state = "None"
  /\ pc' = "open"
  /\ state' = "ServerHello"
  /\ handshake' = [hrr |-> FALSE, cert |-> FALSE]
  /\ ret' = Ret("open", "Pending", 0, <<>>)
  /\ UNCHANGED <<opened, key_schedule, record_write_buf, write_pos,
                 record_read_buf, decrypted, owner, wire_out, peer, plaintext,
                 absorbed, received>>

\* TlsConnection::open up to the loop
\* open is called once on a connection: a connection whose open failed
\* must be recreated (asynch.rs:79-80), and a handshake on an opened
\* connection would be a renegotiation
open ==
  /\ Callable
  /\ state = "None"
  /\ pc' = "open"
  /\ state' = "ClientHello"
  /\ handshake' = [hrr |-> FALSE, cert |-> FALSE]
  /\ ret' = Ret("open", "Pending", 0, <<>>)
  /\ UNCHANGED <<opened, key_schedule, record_write_buf, write_pos,
                 record_read_buf, decrypted, owner, wire_out, peer, plaintext,
                 absorbed, received>>

\* State::ClientHello: send the ClientHello in the clear
process_ClientHello(ok) ==
  /\ pc = "open" /\ state = "ClientHello"
  /\ record_write_buf' = Overwrite(record_write_buf, Len(record_write_buf))
  /\ OpenTurn(ok, "ServerHello", "Io", key_schedule,
              IF ok THEN Append(wire_out, HandshakeRecord(FALSE, key_schedule))
              ELSE wire_out,
              peer, handshake)

\* State::ServerHello: a HelloRetryRequest (at most one) resends the
\* ClientHello; a ServerHello installs the handshake traffic keys; a second
\* HelloRetryRequest fails the handshake
process_ServerHello(ok, hrr) ==
  /\ pc = "open" /\ state = "ServerHello"
  /\ (hrr /\ handshake.hrr) => ~ok
  /\ IF ok /\ hrr
     THEN /\ record_write_buf' = Overwrite(record_write_buf, Len(record_write_buf))
          /\ OpenTurn(TRUE, "ServerHello", "Io", key_schedule,
                      Append(wire_out, HandshakeRecord(FALSE, key_schedule)),
                      peer, [handshake EXCEPT !.hrr = TRUE])
     ELSE /\ UNCHANGED record_write_buf
          /\ OpenTurn(ok, "ServerVerify", "UnexpectedMessage",
                      IF ok THEN RotateKeys(key_schedule) ELSE key_schedule,
                      wire_out,
                      IF ok THEN [ctr |-> 0, echoed |-> Len(wire_out)] ELSE peer,
                      handshake)

\* State::ServerVerify: the server's encrypted flight up to its Finished
process_ServerVerify(ok, cert) ==
  /\ pc = "open" /\ state = "ServerVerify"
  /\ UNCHANGED record_write_buf
  /\ OpenTurn(ok, IF cert THEN "ClientCert" ELSE "ClientFinished", "CryptoError",
              IF ok THEN increment_read_counter(key_schedule) ELSE key_schedule,
              wire_out,
              IF ok THEN [peer EXCEPT !.ctr = @ + 1] ELSE peer,
              [handshake EXCEPT !.cert = ok /\ cert])

\* State::ClientCert: send the client Certificate under the handshake keys
process_ClientCert(ok) ==
  /\ pc = "open" /\ state = "ClientCert"
  /\ record_write_buf' = Overwrite(record_write_buf, Len(record_write_buf))
  /\ OpenTurn(ok, "ClientFinished", "Io",
              IF ok THEN increment_write_counter(key_schedule) ELSE key_schedule,
              IF ok THEN Append(wire_out, HandshakeRecord(TRUE, key_schedule))
              ELSE wire_out,
              peer, handshake)

\* State::ClientFinished: send Finished under the handshake keys, then
\* rotate to the application traffic keys
process_ClientFinished(ok) ==
  /\ pc = "open" /\ state = "ClientFinished"
  /\ record_write_buf' = Overwrite(record_write_buf, Len(record_write_buf))
  /\ LET wire == IF ok THEN Append(wire_out, HandshakeRecord(TRUE, key_schedule))
                 ELSE wire_out
     IN  OpenTurn(ok, "ApplicationData", "Io",
                  IF ok THEN RotateKeys(key_schedule) ELSE key_schedule,
                  wire,
                  IF ok THEN [ctr |-> 0, echoed |-> Len(wire)] ELSE peer,
                  handshake)

\* ------------------------------------------------------------------- peer

\* The peer opens the records it receives in order, each under its own read
\* counter: record i passes when it arrived whole and, if sealed, carries
\* the counter the peer expects, the number of sealed records of that epoch
\* before it.
PeerOpens(wire, i) ==
  /\ wire[i].complete
  /\ wire[i].enc =>
       wire[i].ctr = Cardinality({j \in 1..(i - 1) :
                        wire[j].enc /\ wire[j].epoch = wire[i].epoch})

\* number of leading records of wire the peer opens; it stops at the first
\* one that fails
RECURSIVE Accepted(_, _)
Accepted(wire, n) ==
  IF n < Len(wire) /\ PeerOpens(wire, n + 1) THEN Accepted(wire, n + 1) ELSE n

AcceptedLen(wire) == Accepted(wire, 0)

\* the application records of wire the peer opened, as indices, after from
AppIdx(wire, from) ==
  {i \in (from + 1)..AcceptedLen(wire) : wire[i].type = "ApplicationData"}

\* plaintext of the application records of wire in (from, to]
RECURSIVE Plain(_, _, _)
Plain(wire, from, to) ==
  IF to <= from THEN <<>>
  ELSE Plain(wire, from, to - 1) \o
       (IF wire[to].type = "ApplicationData" THEN wire[to].data ELSE <<>>)

\* what the peer endpoint has as plaintext once it has opened all it can
PeerPlaintext(wire, from) == Plain(wire, from, AcceptedLen(wire))

\* the records the transport can deliver to one read_application_data call
\* Data: the plaintext of the next m application records the peer opened,
\* sent back in one record; Empty: an application record without plaintext;
\* Ticket: a NewSessionTicket; CloseNotify: the peer's close_notify alert;
\* Tampered: a record modified on the way; IoErr: the transport read fails
Items ==
  [kind : {"Empty", "Ticket", "CloseNotify", "Tampered", "IoErr"}, m : {0}]
  \cup [kind : {"Data"}, m : 1..MaxTotal]

\* index in wire of the m-th application record the peer has not echoed yet
EchoTo(wire, p, m) ==
  CHOOSE i \in AppIdx(wire, p.echoed) :
    Cardinality({j \in AppIdx(wire, p.echoed) : j <= i}) = m

\* ------------------------------------------------------------------- read

\* The connection fields a read-side call works on.
ReadSide ==
  [opened |-> opened, ks |-> key_schedule, rbuf |-> record_read_buf,
   dec |-> decrypted, peer |-> peer, res |-> "Ok"]

\* the read buffer after a record with the given plaintext was read into it
\* and opened in place
RecordInBuffer(payload) ==
  Fill(RECORD_HEADER_LEN, ENC) \o payload \o Fill(INNER_TYPE_LEN + AEAD_TAG_LEN, ENC)

\* DecryptedReadHandler::handle(record)
Handle(r, kind, payload) ==
  CASE kind \in {"Data", "Empty"} ->
         [r EXCEPT !.dec = [offset |-> RECORD_HEADER_LEN, len |-> Len(payload),
                            consumed |-> 0]]
    [] kind = "Ticket" -> r
    [] kind = "CloseNotify" ->
         [r EXCEPT !.opened = FALSE, !.res = "ConnectionClosed"]
    [] OTHER -> [r EXCEPT !.res = "InternalError"]

\* decrypt_record(key_schedule, record, handler): AEAD-open under the read
\* counter, then dispatch on the inner content type
DecryptRecord(r, kind, ctr, payload) ==
  IF kind = "Tampered" \/ ctr # r.ks.read_counter
  THEN [r EXCEPT !.res = "CryptoError"]
  ELSE Handle([r EXCEPT !.ks = increment_read_counter(@),
                        !.rbuf = RecordInBuffer(payload)],
              kind, payload)

\* read_application_data that hands the record to the handler unopened
ReadApplicationDataNoOpen(r, item, wire) ==
  IF item.kind = "IoErr"
  THEN [r EXCEPT !.res = "Io"]
  ELSE LET to == IF item.kind = "Data" THEN EchoTo(wire, r.peer, item.m)
                 ELSE r.peer.echoed
           payload == Plain(wire, r.peer.echoed, to)
       IN  Handle([r EXCEPT !.peer = [ctr |-> r.peer.ctr + 1, echoed |-> to],
                            !.ks = increment_read_counter(@),
                            !.rbuf = RecordInBuffer(payload)],
                  item.kind, payload)

\* TlsConnection::read_application_data, the transport delivering item
ReadApplicationData(r, item, wire) ==
  IF item.kind = "IoErr"
  THEN [r EXCEPT !.res = "Io"]
  ELSE LET to == IF item.kind = "Data" THEN EchoTo(wire, r.peer, item.m)
                 ELSE r.peer.echoed
           payload == Plain(wire, r.peer.echoed, to)
           r1 == [r EXCEPT !.peer = [ctr |-> r.peer.ctr + 1, echoed |-> to],
                           !.rbuf = Fill(EncodedLen(Len(payload), TRUE), ENC)]
       IN  DecryptRecord(r1, item.kind, r.peer.ctr, payload)

\* the transport can deliver item now
Deliverable(r, item, wire) ==
  /\ item.kind # "IoErr" => r.peer.ctr < MaxIn
  /\ item.kind = "Data" => item.m <= Cardinality(AppIdx(wire, r.peer.echoed))

\* a loop that reads records whether or not decrypted bytes remain
RECURSIVE ReadLoopAlways(_, _, _)
ReadLoopAlways(r, items, wire) ==
  IF items = <<>>
  THEN [r |-> r, left |-> items, waiting |-> is_empty(r.dec)]
  ELSE IF ~Deliverable(r, Head(items), wire)
       THEN [r |-> r, left |-> items, waiting |-> TRUE]
       ELSE LET r1 == ReadApplicationData(r, Head(items), wire)
            IN  IF r1.res # "Ok"
                THEN [r |-> r1, left |-> Tail(items), waiting |-> FALSE]
                ELSE ReadLoopAlways(r1, Tail(items), wire)

\* an if in place of the while: one record is read and the call goes on
RECURSIVE ReadLoopOnce(_, _, _)
ReadLoopOnce(r, items, wire) ==
  IF ~is_empty(r.dec)
  THEN [r |-> r, left |-> items, waiting |-> FALSE]
  ELSE IF items = <<>> \/ ~Deliverable(r, Head(items), wire)
       THEN [r |-> r, left |-> items, waiting |-> TRUE]
       ELSE [r |-> ReadApplicationData(r, Head(items), wire),
             left |-> Tail(items), waiting |-> FALSE]

\* the loop of read_buffered: while self.decrypted.is_empty() { .. ? }
\* left: the items the loop did not come to read; waiting: the loop is
\* still in read_application_data, the transport having nothing to deliver
RECURSIVE ReadLoop(_, _, _)
ReadLoop(r, items, wire) ==
  IF ~is_empty(r.dec)
  THEN [r |-> r, left |-> items, waiting |-> FALSE]
  ELSE IF items = <<>> \/ ~Deliverable(r, Head(items), wire)
       THEN [r |-> r, left |-> items, waiting |-> TRUE]
       ELSE LET r1 == ReadApplicationData(r, Head(items), wire)
            IN  IF r1.res # "Ok"
                THEN [r |-> r1, left |-> Tail(items), waiting |-> FALSE]
                ELSE ReadLoop(r1, Tail(items), wire)

\* ReadBuffer::pop_into(out) with out of length k: number of bytes copied
PopLen(d, k) == Min(d.len - d.consumed, k)

\* a read buffer over the whole record, consumed bytes included
CreateReadBufferFromStart(d, rbuf) ==
  SubSeq(rbuf, d.offset + 1, d.offset + d.len)

\* DecryptedBufferInfo::create_read_buffer: the unconsumed plaintext
CreateReadBuffer(d, rbuf) ==
  SubSeq(rbuf, d.offset + d.consumed + 1, d.offset + d.len)

\* a read that leaves the consumed cursor where it was
ReadOpNoAdvance(r, k) ==
  LET n == PopLen(r.dec, k)
  IN  [r |-> r, n |-> n, data |-> SubSeq(CreateReadBuffer(r.dec, r.rbuf), 1, n)]

\* TlsConnection::read_buffered, then pop_into(out) on the returned buffer
ReadOp(r, k) ==
  LET n == PopLen(r.dec, k)
  IN  [r |-> [r EXCEPT !.dec.consumed = @ + n],
       n |-> n,
       data |-> SubSeq(CreateReadBuffer(r.dec, r.rbuf), 1, n)]

\* records the loop of read_buffered reads and goes on after
Skipped == {i \in Items : i.kind \in {"Ticket", "Empty"}}

\* what the transport delivers during one read call: records the loop
\* skips, then at most one record that ends it
ItemSeqs ==
  {pre \o last : pre \in UNION {[1..n -> Skipped] : n \in 0..(MaxPull - 1)},
                 last \in {<<>>} \cup {<<i>> : i \in Items \ Skipped}}

\* a read call named op during which the transport delivers items; the
\* caller pops into an out buffer of length k, or one that takes all when
\* all is set
ReadCall(op, k, all, items) ==
  /\ Callable
  /\ ~opened => items = <<>>
  /\ IF opened
     THEN LET l == ReadLoop(ReadSide, items, wire_out)
              o == ReadOp(l.r, IF all THEN l.r.dec.len ELSE k)
          IN  /\ l.left = <<>>
              /\ ~l.waiting
              /\ opened' = l.r.opened
              /\ key_schedule' = l.r.ks
              /\ peer' = l.r.peer
              /\ IF l.r.res = "Ok"
                 THEN /\ record_read_buf' = o.r.rbuf
                      /\ decrypted' = o.r.dec
                      /\ received' = received \o o.data
                      /\ ret' = Ret(op, "Ok", o.n, o.data)
                 ELSE /\ record_read_buf' = l.r.rbuf
                      /\ decrypted' = l.r.dec
                      /\ received' = received
                      /\ ret' = Ret(op, l.r.res, 0, <<>>)
     ELSE /\ ret' = Ret(op, "MissingHandshake", 0, <<>>)
          /\ UNCHANGED <<opened, key_schedule, peer, record_read_buf,
                         decrypted, received>>
  /\ UNCHANGED <<pc, state, handshake, record_write_buf, write_pos, owner,
                 wire_out, plaintext, absorbed>>

\* TlsConnection::read(buf) with buf of length k
read(k, items) == ReadCall("read", k, FALSE, items)

\* TlsConnection::read_buffered(), the caller taking all of the returned
\* buffer
read_buffered(items) == ReadCall("read_buffered", 0, TRUE, items)

\* ------------------------------------------------------------------ spec

Next ==
  \/ open
  \/ \E ok \in BOOLEAN : process_ClientHello(ok)
  \/ \E ok \in BOOLEAN, hrr \in BOOLEAN : process_ServerHello(ok, hrr)
  \/ \E ok \in BOOLEAN, cert \in BOOLEAN : process_ServerVerify(ok, cert)
  \/ \E ok \in BOOLEAN : process_ClientCert(ok)
  \/ \E ok \in BOOLEAN : process_ClientFinished(ok)
  \/ \E n \in 0..MaxChunk, enc_ok \in BOOLEAN, io_ok \in BOOLEAN :
       write(n, enc_ok, io_ok)
  \/ \E enc_ok \in BOOLEAN, io_ok \in BOOLEAN : flush(enc_ok, io_ok)
  \/ \E k \in 0..MaxChunk, items \in ItemSeqs : read(k, items)
  \/ \E items \in ItemSeqs : read_buffered(items)
  \/ \E enc_ok \in BOOLEAN, io_ok \in BOOLEAN : close(enc_ok, io_ok)

Spec == Init /\ [][Next]_vars

\* Round trip over a faithful transport: the caller's stream is any string
\* of at most MaxTotal bits; the encoder and the transport do not fail and
\* the peer sends back application data only.
InitRT == \E len \in 1..MaxTotal : \E p \in [1..len -> {0, 1}] : New(p)

Faithful == {<<>>} \cup {<<i>> : i \in {j \in Items : j.kind = "Data"}}

NextRT ==
  \/ open
  \/ process_ClientHello(TRUE)
  \/ \E hrr \in BOOLEAN : process_ServerHello(TRUE, hrr)
  \/ \E cert \in BOOLEAN : process_ServerVerify(TRUE, cert)
  \/ process_ClientCert(TRUE)
  \/ process_ClientFinished(TRUE)
  \/ \E n \in 0..MaxChunk : write(n, TRUE, TRUE)
  \/ flush(TRUE, TRUE)
  \/ \E k \in 0..MaxChunk, items \in Faithful : read(k, items)
  \/ \E items \in Faithful : read_buffered(items)

SpecRT == InitRT /\ [][NextRT]_vars

\* The caller of the round trip keeps going: it writes the rest of its
\* stream as long as there is one, and it flushes.
SpecLive ==
  /\ SpecRT
  /\ WF_vars(\E n \in 1..MaxChunk : write(n, TRUE, TRUE))
  /\ WF_vars(flush(TRUE, TRUE))

\* ---------------------------------------------------------------- claims

max_block_size == Len(record_write_buf) - TLS_RECORD_OVERHEAD

\* C1: in every reachable state, whatever calls were made and whatever they
\* returned, write_pos <= record_write_buf.len() - TLS_RECORD_OVERHEAD, so
\* max_block_size - write_pos in write does not underflow.
C1_WritePosBound ==
  /\ Len(record_write_buf) > TLS_RECORD_OVERHEAD
  /\ 0 <= write_pos
  /\ write_pos <= max_block_size

\* a write filled the block, the flush inside it failed, and write_pos stays
\* at the bound
C1_Witness ==
  /\ ret.op = "write" /\ ret.res = "Io"
  /\ write_pos = max_block_size
  /\ max_block_size > 1

\* the calls that need an opened connection
UserOps == {"write", "read", "read_buffered"}

\* C2: while opened is false, write, read and read_buffered return
\* MissingHandshake, make no transport read or write and leave write_pos,
\* the write counter and the decrypted cursor unchanged; read and
\* read_buffered return plaintext only in a state where opened is true.
C2_MissingHandshake ==
  [][/\ (~opened /\ ret'.op \in UserOps) =>
          /\ ret'.res = "MissingHandshake"
          /\ ret'.n = 0 /\ ret'.data = <<>>
          /\ UNCHANGED <<wire_out, peer, record_read_buf, record_write_buf>>
          /\ UNCHANGED <<write_pos, key_schedule, decrypted>>
          /\ UNCHANGED <<absorbed, received, opened>>
     /\ (ret'.op \in {"read", "read_buffered"} /\ received' # received) =>
          /\ opened /\ opened'
          /\ ret'.res = "Ok"]_vars

\* a write on a connection that was opened and then saw the peer's
\* close_notify, with bytes still buffered: MissingHandshake
C2_Witness ==
  /\ ~opened /\ state = "ApplicationData"
  /\ ret.op = "write" /\ ret.res = "MissingHandshake"
  /\ write_pos > 0

\* where the bytes copied by a write are afterwards: in the write buffer at
\* offsets w.., or, when the write filled the block and flushed it, at
\* offsets w.. of the payload of the record the flush handed to the transport
Placed(b, n, w) ==
  IF w + n < max_block_size
  THEN /\ write_pos' = w + n
       /\ record_write_buf' =
            [i \in 1..Len(record_write_buf) |->
               IF w < i /\ i <= w + n THEN b[i - w] ELSE record_write_buf[i]]
       /\ wire_out' = wire_out
  ELSE /\ write_pos' = 0
       /\ Len(wire_out') = Len(wire_out) + 1
       /\ wire_out'[Len(wire_out')].data =
            SubSeq(record_write_buf, 1, w) \o SubSeq(b, 1, n)

\* C3: on an opened connection with write buffer length L and write_pos w,
\* a write(buf) that returns Ok returns min(len(buf), L - 128 - w), and that
\* many leading bytes of buf were copied to the write buffer at offsets w..;
\* 100 bytes into an empty 200-byte buffer gives 72.
C3_WriteReturn ==
  [][/\ \A n \in 0..MaxChunk, enc_ok \in BOOLEAN, io_ok \in BOOLEAN :
          (opened /\ ret' = Ret("write", "Ok", ret'.n, <<>>)
             /\ write(n, enc_ok, io_ok)) =>
             /\ ret'.n = Min(n, Len(record_write_buf) - 128 - write_pos)
             /\ absorbed' = absorbed \o SubSeq(Chunk(n), 1, ret'.n)
             /\ Placed(Chunk(n), ret'.n, write_pos)
     /\ Buffered(100, 200 - TLS_RECORD_OVERHEAD, 0) = 72]_vars

\* a write of more bytes than the block had room for returned the room left,
\* behind bytes that were already buffered
C3_Witness ==
  /\ opened /\ ret.op = "write" /\ ret.res = "Ok"
  /\ ret.n = 1 /\ Len(absorbed) = 2
  /\ max_block_size = 2 /\ write_pos = 0
  /\ \E i \in 1..Len(wire_out) : wire_out[i].data = <<1, 2>>

\* C4: flush writes to the transport only when write_pos > 0 at entry, and
\* then, the encoder having returned Ok, it hands the transport one
\* ApplicationData record carrying the write_pos buffered bytes; when the
\* transport write succeeds write_pos becomes 0; when write_pos = 0 there is
\* no transport write and write_pos, the write buffer and the write counter
\* stay as they are.
C4_Flush ==
  [][\A enc_ok \in BOOLEAN, io_ok \in BOOLEAN :
       flush(enc_ok, io_ok) =>
         /\ wire_out' # wire_out => write_pos > 0
         /\ (write_pos > 0 /\ enc_ok) =>
              /\ Len(wire_out') = Len(wire_out) + 1
              /\ SubSeq(wire_out', 1, Len(wire_out)) = wire_out
              /\ wire_out'[Len(wire_out')].type = "ApplicationData"
              /\ wire_out'[Len(wire_out')].data = SubSeq(record_write_buf, 1, write_pos)
              /\ wire_out'[Len(wire_out')].complete = io_ok
         /\ (write_pos > 0 /\ enc_ok /\ io_ok) =>
              /\ write_pos' = 0
              /\ ret'.res = "Ok"
         /\ write_pos = 0 =>
              /\ ret'.res = "Ok"
              /\ UNCHANGED <<wire_out, write_pos, record_write_buf, key_schedule>>]_vars

\* a flush of a partly filled block sent it as one record and zeroed write_pos
C4_Witness ==
  /\ ret.op = "flush" /\ ret.res = "Ok"
  /\ write_pos = 0
  /\ max_block_size = 2
  /\ wire_out # <<>>
  /\ wire_out[Len(wire_out)].type = "ApplicationData"
  /\ wire_out[Len(wire_out)].complete
  /\ Len(wire_out[Len(wire_out)].data) = 1

\* the application records among the first n records of wire
AppRecords(wire, n) == {i \in 1..n : wire[i].type = "ApplicationData"}

\* the application records that carry less than a full block
Short(wire) ==
  {i \in AppRecords(wire, Len(wire)) : Len(wire[i].data) < max_block_size}

\* C5: over writes and flushes whose transport writes succeeded, the
\* application bytes of the records handed to the transport, in emission
\* order, are the bytes the writes absorbed, in submission order (those not
\* flushed yet wait in the write buffer); when the writes are followed by
\* one flush, so that only the last record can be short, the number of
\* ApplicationData records is at most ceil(total / (L - 128)).
C5_Order ==
  Incomplete(wire_out) = {} =>
    /\ write_pos <= Len(absorbed)
    /\ Plain(wire_out, 0, Len(wire_out)) =
         SubSeq(absorbed, 1, Len(absorbed) - write_pos)
    /\ owner = "conn" =>
         SubSeq(record_write_buf, 1, write_pos) =
           SubSeq(absorbed, Len(absorbed) - write_pos + 1, Len(absorbed))
    /\ (\A i \in Short(wire_out) : AppRecords(wire_out, Len(wire_out)) \subseteq 1..i) =>
         Cardinality(AppRecords(wire_out, Len(wire_out))) <=
           CeilDiv(Len(absorbed), max_block_size)

\* three bytes written through a two-byte block and flushed: two records,
\* the bytes in order
C5_Witness ==
  /\ ret.op = "flush" /\ ret.res = "Ok"
  /\ write_pos = 0 /\ max_block_size = 2
  /\ absorbed = plaintext
  /\ Incomplete(wire_out) = {}
  /\ Cardinality(AppRecords(wire_out, Len(wire_out))) = 2
  /\ Plain(wire_out, 0, Len(wire_out)) = <<1, 2, 3>>

\* C6: round trip: whatever the plaintext and the chunks it is written in,
\* once it is all written and flushed the peer endpoint holds exactly the
\* plaintext, and the bytes read back from the peer over the faithful
\* transport are the plaintext, byte for byte, up to the number read.
C6_RoundTrip ==
  /\ IsPrefix(absorbed, plaintext)
  /\ IsPrefix(received, absorbed)
  /\ (absorbed = plaintext /\ write_pos = 0) =>
       PeerPlaintext(wire_out, 0) = plaintext
  /\ Len(received) = Len(plaintext) => received = plaintext

\* a three-byte plaintext went out in two records and came back whole
C6_Witness ==
  /\ plaintext = <<1, 0, 1>>
  /\ received = plaintext
  /\ Cardinality(AppRecords(wire_out, Len(wire_out))) = 2
  /\ ret.op = "read" /\ ret.n = 1

\* the plaintext of the record the decrypted cursor d describes in rbuf
Payload(d, rbuf) == SubSeq(rbuf, d.offset + 1, d.offset + d.len)

\* C7: a read(out) with out of length k that returns Ok returns
\* min(k, bytes of the current record not yet consumed), hands out exactly
\* the next bytes of the record and advances consumed by the count; a
\* record of 50 bytes read 20 at a time gives 20, 20, 10.
C7_SplitRead ==
  [][/\ \A k \in 0..MaxChunk, items \in ItemSeqs :
          (ret'.op = "read" /\ ret'.res = "Ok" /\ read(k, items)) =>
            LET from == IF is_empty(decrypted) THEN 0 ELSE decrypted.consumed
                p    == Payload(decrypted', record_read_buf')
            IN  /\ ~is_empty(decrypted) =>
                     /\ Payload(decrypted, record_read_buf) = p
                     /\ decrypted'.len = decrypted.len
                /\ is_empty(decrypted) =>
                     p = Plain(wire_out, peer.echoed, peer'.echoed)
                /\ ret'.n = Min(k, decrypted'.len - from)
                /\ ret'.data = SubSeq(p, from + 1, from + ret'.n)
                /\ decrypted'.consumed = from + ret'.n
                /\ received' = received \o ret'.data
     /\ LET d == [offset |-> RECORD_HEADER_LEN, len |-> 50, consumed |-> 0]
        IN  /\ PopLen(d, 20) = 20
            /\ PopLen([d EXCEPT !.consumed = 20], 20) = 20
            /\ PopLen([d EXCEPT !.consumed = 40], 20) = 10]_vars

\* a record of three bytes read two at a time: the second read returned the
\* one byte left
C7_Witness ==
  /\ ret.op = "read" /\ ret.res = "Ok"
  /\ decrypted.len = 3 /\ decrypted.consumed = 3
  /\ ret.n = 1 /\ ret.data = <<3>>
  /\ received = <<1, 2, 3>>

\* the records of wire sealed by flush or close
Sealed(wire) == {i \in 1..Len(wire) : wire[i].enc /\ wire[i].type # "Handshake"}

\* the records sealed before record i of wire in the same key epoch
Before(wire, i) ==
  {j \in 1..(i - 1) : wire[j].enc /\ wire[j].epoch = wire[i].epoch}

\* C8 as stated: the nonce counter of every seal by flush or close is the
\* 1-based index of the seal in its epoch, and the counter does not decrease
\* within an epoch.
C8_OneBased ==
  [][/\ \A i \in Sealed(wire_out') :
          wire_out'[i].ctr = Cardinality(Before(wire_out', i)) + 1
     /\ key_schedule'.epoch = key_schedule.epoch =>
          key_schedule'.write_counter >= key_schedule.write_counter]_vars

\* C8: the nonce counter of every seal by flush or close is the number of
\* records sealed before it in the epoch whose transport write succeeded (0
\* for the first seal of the epoch), and the write counter does not decrease
\* within an epoch.
C8_ZeroBased ==
  [][/\ \A i \in Sealed(wire_out') :
          wire_out'[i].ctr =
            Cardinality({j \in Before(wire_out', i) : wire_out'[j].complete})
     /\ key_schedule'.epoch = key_schedule.epoch =>
          key_schedule'.write_counter >= key_schedule.write_counter]_vars

\* two blocks flushed in the application epoch: counters 0 and 1
C8_Witness ==
  \E i \in Sealed(wire_out), j \in Sealed(wire_out) :
    /\ i < j
    /\ wire_out[i].epoch = wire_out[j].epoch
    /\ wire_out[i].type = "ApplicationData" /\ wire_out[j].type = "ApplicationData"
    /\ wire_out[i].ctr = 0 /\ wire_out[j].ctr = 1
    /\ key_schedule.write_counter = 2

\* C9: close hands the transport back whatever happens; it returns Ok when
\* the alert was encoded and written and the error when the encoder or the
\* transport write failed; it hands the transport at most one record, a
\* close_notify alert that is sealed exactly when opened is true.
C9_Close ==
  [][\A enc_ok \in BOOLEAN, io_ok \in BOOLEAN :
       close(enc_ok, io_ok) =>
         /\ owner' = "caller"
         /\ ret'.res = "Ok" <=> (enc_ok /\ io_ok)
         /\ ~enc_ok => (ret'.res = "EncodeError" /\ wire_out' = wire_out)
         /\ (enc_ok /\ ~io_ok) => ret'.res = "Io"
         /\ Len(wire_out') <= Len(wire_out) + 1
         /\ SubSeq(wire_out', 1, Len(wire_out)) = wire_out
         /\ enc_ok =>
              /\ Len(wire_out') = Len(wire_out) + 1
              /\ wire_out'[Len(wire_out')].type = "Alert"
              /\ wire_out'[Len(wire_out')].enc = opened
              /\ wire_out'[Len(wire_out')].complete = io_ok]_vars

\* a close on an opened connection whose transport write failed: the caller
\* has the transport and the error
C9_Witness ==
  /\ owner = "caller"
  /\ ret.op = "close" /\ ret.res = "Io"
  /\ opened
  /\ wire_out[Len(wire_out)].type = "Alert"
  /\ wire_out[Len(wire_out)].enc
  /\ ~wire_out[Len(wire_out)].complete

\* a close_notify was sent by close, or received by a read
CloseNotified == owner = "caller" \/ (state = "ApplicationData" /\ ~opened)

\* C10: after a close_notify was sent by close or received by a read, no
\* application data goes to the transport or to the user: the read that
\* sees the close_notify returns ConnectionClosed, and every later read,
\* read_buffered and write returns an error.
C10_NoDataAfterClose ==
  [][/\ (opened /\ ~opened') => ret'.res = "ConnectionClosed"
     /\ CloseNotified =>
          /\ AppRecords(wire_out', Len(wire_out')) = AppRecords(wire_out, Len(wire_out))
          /\ received' = received
          /\ absorbed' = absorbed
          /\ ret'.op \in UserOps => ret'.res # "Ok"]_vars

\* the divergence: a block buffered before the peer's close_notify was read
\* goes to the transport by a flush after it
C10_Emitted ==
  /\ CloseNotified /\ owner = "conn"
  /\ ret.op = "flush" /\ ret.res = "Ok"
  /\ Incomplete(wire_out) = {}
  /\ max_block_size = 2
  /\ wire_out[Len(wire_out)].type = "ApplicationData"
  /\ wire_out[Len(wire_out)].data = <<1>>

\* C11: opened is false after new; a step sets it to true only when it is a
\* turn of open that brings the driver's state to ApplicationData; when a
\* process step returns an error, open returns that error with opened still
\* false, and write and read on that connection return MissingHandshake.
C11_OpenedOnlyByOpen ==
  [][/\ ret.op = "new" => ~opened
     /\ (~opened /\ opened') =>
          /\ pc = "open" /\ pc' = "idle"
          /\ state # "ApplicationData" /\ state' = "ApplicationData"
          /\ ret' = Ret("open", "Ok", 0, <<>>)
     /\ (pc = "open" /\ pc' = "idle" /\ state' # "ApplicationData") =>
          /\ ret'.op = "open"
          /\ ret'.res \in {"Io", "UnexpectedMessage", "CryptoError"}
          /\ ~opened /\ ~opened'
          /\ state' = state
     /\ (pc = "idle" /\ state \notin {"None", "ApplicationData"}) =>
          /\ ~opened /\ ~opened'
          /\ ret'.op \in UserOps => ret'.res = "MissingHandshake"]_vars

\* open failed at the server's flight, and a write after it was refused
C11_Witness ==
  /\ state = "ServerVerify" /\ pc = "idle"
  /\ ~opened
  /\ ret.op = "write" /\ ret.res = "MissingHandshake"

\* the order of the handshake states: each state and the states that follow it
Follows ==
  [None |-> {"ClientHello"},
   ClientHello |-> {"ServerHello"},
   ServerHello |-> {"ServerVerify"},
   ServerVerify |-> {"ClientCert", "ClientFinished"},
   ClientCert |-> {"ClientFinished"},
   ClientFinished |-> {"ApplicationData"},
   ApplicationData |-> {}]

\* C12: the driver starts at ClientHello and moves through ClientHello,
\* ServerHello, ServerVerify, ClientCert (optional), ClientFinished,
\* ApplicationData in this order; ApplicationData is entered from
\* ClientFinished only, and ServerHello is entered again at most once, on a
\* HelloRetryRequest.
C12_HandshakeOrder ==
  [][/\ state' # state => state' \in Follows[state]
     /\ (state' = "ApplicationData" /\ state # "ApplicationData") =>
          state = "ClientFinished"
     /\ (pc = "open" /\ pc' = "open" /\ state' = state) =>
          /\ state = "ServerHello"
          /\ ~handshake.hrr /\ handshake'.hrr
     /\ (handshake.hrr /\ state' # "None") => handshake'.hrr
     /\ opened' => state' = "ApplicationData"]_vars

\* an open that went through a HelloRetryRequest and a client certificate
C12_Witness ==
  /\ state = "ApplicationData" /\ opened
  /\ handshake.hrr /\ handshake.cert
  /\ ret = Ret("open", "Ok", 0, <<>>)
  /\ Cardinality({i \in 1..Len(wire_out) : wire_out[i].type = "Handshake"}) = 4

\* the read calls during which the transport delivers a record that was
\* modified on the way
TamperedSeqs == {items \in ItemSeqs : items # <<>> /\ items[Len(items)].kind = "Tampered"}

\* a record of the peer failed to open: the peer has sealed more records
\* than the connection has opened
Desynced == state = "ApplicationData" /\ peer.ctr > key_schedule.read_counter

\* C13: the read that processes a modified sealed record returns
\* CryptoError, hands out no plaintext and does not populate the decrypted
\* cursor, and the reads after it on the connection fail too.
C13_Tamper ==
  [][/\ \A items \in TamperedSeqs :
          (/\ ret'.op \in {"read", "read_buffered"}
           /\ (\E k \in 0..MaxChunk : read(k, items)) \/ read_buffered(items)) =>
            /\ ret'.res = "CryptoError"
            /\ ret'.n = 0 /\ ret'.data = <<>>
            /\ received' = received
            /\ is_empty(decrypted')
            /\ \A i \in 1..Len(record_read_buf') : record_read_buf'[i] = ENC
            /\ Desynced'
     /\ Desynced =>
          /\ Desynced'
          /\ received' = received
          /\ decrypted' = decrypted
          /\ ret'.op \in {"read", "read_buffered"} => ret'.res # "Ok"]_vars

\* a record was modified on the way, and the record after it, which
\* carried application data, failed to open as well: nothing was delivered
C13_Witness ==
  /\ Desynced
  /\ key_schedule.read_counter = 0 /\ peer.ctr = 2
  /\ ret.op = "read" /\ ret.res = "CryptoError"
  /\ \E i \in 1..peer.echoed : wire_out[i].type = "ApplicationData"
  /\ received = <<>> /\ is_empty(decrypted)

\* the record a step appended to the transport, if it appended one
Appended == wire_out'[Len(wire_out')]

\* C14: every record flush hands to the transport, called by the user or
\* from inside write, has length <= plaintext_len + TLS_RECORD_OVERHEAD,
\* where plaintext_len is write_pos when flush is entered, and so never
\* more than record_write_buf.len(); at most 200 for a 200-byte buffer.
C14_RecordSize ==
  [][/\ (Len(wire_out') = Len(wire_out) + 1 /\ Appended.type = "ApplicationData") =>
          LET plaintext_len == IF ret'.op = "flush" THEN write_pos
                               ELSE max_block_size
          IN  /\ ret'.op \in {"flush", "write"}
              /\ Len(Appended.data) = plaintext_len
              /\ Appended.len <= plaintext_len + TLS_RECORD_OVERHEAD
              /\ Appended.len <= Len(record_write_buf)
              /\ Appended.len > plaintext_len
     /\ \A n \in 1..(200 - TLS_RECORD_OVERHEAD) :
          /\ EncodedLen(n, TRUE) <= n + TLS_RECORD_OVERHEAD
          /\ EncodedLen(n, TRUE) <= 200]_vars

\* a full block of two bytes went out from a 130-byte buffer as a record of
\* 24 bytes
C14_Witness ==
  /\ Len(record_write_buf) = 130
  /\ ret.op = "write" /\ ret.res = "Ok"
  /\ wire_out # <<>>
  /\ wire_out[Len(wire_out)].type = "ApplicationData"
  /\ Len(wire_out[Len(wire_out)].data) = 2
  /\ wire_out[Len(wire_out)].len = 24

\* C15: read and read_buffered take a record from the transport only when
\* the decrypted cursor is empty; while unconsumed decrypted bytes remain
\* they make no transport read, return bytes of the record at hand, and the
\* part of the read buffer that holds the bytes is not overwritten.
C15_PullOnlyWhenEmpty ==
  [][/\ (ret'.op \in {"read", "read_buffered"} /\ opened /\ ~is_empty(decrypted)) =>
          /\ peer' = peer
          /\ key_schedule' = key_schedule
          /\ record_read_buf' = record_read_buf
          /\ ret'.res = "Ok"
          /\ decrypted'.offset = decrypted.offset
          /\ decrypted'.len = decrypted.len
          /\ ret'.data = SubSeq(CreateReadBuffer(decrypted, record_read_buf), 1, ret'.n)
     /\ (state = "ApplicationData" /\ state' = state
           /\ (peer' # peer \/ record_read_buf' # record_read_buf
                 \/ key_schedule'.read_counter # key_schedule.read_counter
                 \/ ret'.res \in {"CryptoError", "ConnectionClosed", "InternalError"})) =>
          /\ ret'.op \in {"read", "read_buffered"}
          /\ opened /\ is_empty(decrypted)
     /\ ~is_empty(decrypted) =>
          CreateReadBuffer(decrypted', record_read_buf') =
            SubSeq(CreateReadBuffer(decrypted, record_read_buf),
                   decrypted'.consumed - decrypted.consumed + 1,
                   decrypted.len - decrypted.consumed)]_vars

\* the second read of a three-byte record: no record was taken from the
\* transport, and one byte is still unconsumed
C15_Witness ==
  /\ ret.op = "read" /\ ret.res = "Ok" /\ ret.n = 1
  /\ decrypted.len = 3 /\ decrypted.consumed = 2
  /\ peer.ctr = 1 /\ key_schedule.read_counter = 1
  /\ received = <<1, 2>>

\* C16: within one key epoch no two records handed to the transport, whole
\* or in part, are sealed with the same write counter, a flush repeated
\* after a failed transport write included.
C16_NoNonceReuse ==
  \A i \in 1..Len(wire_out), j \in 1..Len(wire_out) :
    (i < j /\ wire_out[i].enc /\ wire_out[j].enc
       /\ wire_out[i].epoch = wire_out[j].epoch) =>
      wire_out[i].ctr # wire_out[j].ctr

\* the divergence: a flush whose write_all failed and the flush repeated
\* after it sealed two records with the same counter
C16_Reused ==
  /\ Len(wire_out) >= 2
  /\ ret.op = "flush" /\ ret.res = "Ok"
  /\ LET i == Len(wire_out) - 1
         j == Len(wire_out)
     IN  /\ wire_out[i].type = "ApplicationData" /\ ~wire_out[i].complete
         /\ wire_out[j].type = "ApplicationData" /\ wire_out[j].complete
         /\ wire_out[i].epoch = wire_out[j].epoch
         /\ wire_out[i].ctr = wire_out[j].ctr
         /\ wire_out[i].data # wire_out[j].data

\* C17: flush, called by the user or from inside write, changes write_pos
\* and the write counter only after write_all succeeded; when the encoder
\* or write_all fails it returns the error with both at the values they had
\* when flush was entered, and a write returns that error with the bytes it
\* copied counted in write_pos.
C17_UpdateAfterWriteAll ==
  [][/\ \A enc_ok \in BOOLEAN, io_ok \in BOOLEAN :
          (ret'.op = "flush" /\ flush(enc_ok, io_ok)) =>
            /\ (write_pos > 0 /\ ~(enc_ok /\ io_ok)) =>
                 /\ ret'.res = IF enc_ok THEN "Io" ELSE "EncodeError"
                 /\ write_pos' = write_pos
                 /\ key_schedule' = key_schedule
            /\ (write_pos' # write_pos \/ key_schedule' # key_schedule) =>
                 /\ enc_ok /\ io_ok
                 /\ wire_out' = Append(wire_out, Appended)
                 /\ Appended.complete
                 /\ write_pos' = 0
                 /\ key_schedule' = increment_write_counter(key_schedule)
     /\ \A n \in 0..MaxChunk, enc_ok \in BOOLEAN, io_ok \in BOOLEAN :
          (ret'.op = "write" /\ opened /\ write(n, enc_ok, io_ok)) =>
            LET copied == Min(n, max_block_size - write_pos)
            IN  /\ (write_pos + copied = max_block_size /\ ~(enc_ok /\ io_ok)) =>
                     /\ ret'.res = IF enc_ok THEN "Io" ELSE "EncodeError"
                     /\ ret'.n = 0
                     /\ write_pos' = write_pos + copied
                     /\ key_schedule' = key_schedule
                     /\ absorbed' = absorbed \o SubSeq(Chunk(n), 1, copied)
                /\ key_schedule' # key_schedule =>
                     /\ enc_ok /\ io_ok
                     /\ Appended.complete
                     /\ write_pos' = 0]_vars

\* a write copied two bytes, filled the block, and the write_all of the
\* flush inside it failed: the error, the bytes counted, the counter at 0
C17_Witness ==
  /\ ret.op = "write" /\ ret.res = "Io"
  /\ max_block_size = 2 /\ write_pos = 2
  /\ absorbed = <<1, 2>>
  /\ key_schedule.write_counter = 0
  /\ ~wire_out[Len(wire_out)].complete
  /\ wire_out[Len(wire_out)].data = <<1, 2>>

\* all of the caller's stream was handed to the transport
Flushed ==
  /\ absorbed = plaintext
  /\ write_pos = 0
  /\ Plain(wire_out, 0, Len(wire_out)) = plaintext

\* C18: on an opened connection whose transport does not fail, a write of
\* a non-empty slice absorbs at least one byte, write_pos is below
\* L - 128 after every write, and a caller that writes the rest of its
\* stream until none is left and then flushes gets all of it handed to the
\* transport.
C18_WriteProgress ==
  /\ [](opened /\ pc = "idle" => write_pos < max_block_size)
  /\ [][\A n \in 1..MaxChunk :
          (ret'.op = "write" /\ opened /\ write(n, TRUE, TRUE)) =>
            /\ ret'.res = "Ok"
            /\ ret'.n >= 1
            /\ Len(absorbed') = Len(absorbed) + ret'.n
            /\ write_pos' < max_block_size]_vars
  /\ opened ~> Flushed

\* the last byte of a three-byte stream went into a block that holds two,
\* behind a record already sent, and the flush sent it
C18_Witness ==
  /\ Flushed /\ opened
  /\ Len(plaintext) = 3 /\ max_block_size = 2
  /\ ret.op = "flush" /\ ret.res = "Ok"
  /\ Cardinality(AppRecords(wire_out, Len(wire_out))) = 2

\* C19: on an opened connection a read into a non-empty buffer that returns
\* Ok returns between 1 and len(out) bytes: the loop of read_buffered goes
\* on over records without application plaintext until the decrypted
\* cursor is not empty or a call returns an error.
C19_NoEmptyRead ==
  [][/\ \A k \in 1..MaxChunk, items \in ItemSeqs :
          (ret'.op = "read" /\ ret'.res = "Ok" /\ read(k, items)) =>
            /\ 1 <= ret'.n /\ ret'.n <= k
            /\ Len(ret'.data) = ret'.n
     /\ (ret'.op = "read_buffered" /\ ret'.res = "Ok") => ret'.n >= 1]_vars

\* a read during which the transport delivered a record without plaintext
\* and then one with a byte returned the byte
C19_Witness ==
  /\ ret.op = "read" /\ ret.res = "Ok" /\ ret.n = 1
  /\ key_schedule.read_counter = 2 /\ peer.ctr = 2
  /\ decrypted.len = 1
  /\ received = <<1>>

\* C20: close does not flush: bytes buffered when close is called are not
\* handed to the transport as an ApplicationData record; close encodes the
\* close_notify record at the start of the write buffer and writes that
\* record only.
C20_CloseDoesNotFlush ==
  [][/\ \A enc_ok \in BOOLEAN, io_ok \in BOOLEAN :
          (ret'.op = "close" /\ close(enc_ok, io_ok)) =>
            /\ AppRecords(wire_out', Len(wire_out')) = AppRecords(wire_out, Len(wire_out))
            /\ Plain(wire_out', 0, Len(wire_out')) = Plain(wire_out, 0, Len(wire_out))
            /\ write_pos' = write_pos
            /\ enc_ok =>
                 /\ wire_out' = Append(wire_out, Appended)
                 /\ Appended.type = "Alert"
                 /\ Appended.len = EncodedLen(ALERT_LEN, opened)
                 /\ record_write_buf' = Overwrite(record_write_buf, Appended.len)
            /\ ~enc_ok => UNCHANGED <<wire_out, record_write_buf>>
     /\ owner = "caller" => UNCHANGED wire_out]_vars

\* a close with a byte in the write buffer: the alert went out, the byte did
\* not
C20_Witness ==
  /\ owner = "caller"
  /\ ret.op = "close" /\ ret.res = "Ok"
  /\ write_pos = 1
  /\ absorbed = <<1>>
  /\ Plain(wire_out, 0, Len(wire_out)) = <<>>
  /\ wire_out[Len(wire_out)].type = "Alert"
  /\ record_write_buf[1] = ENC

====
